---- MODULE Spec2Model ----
(***************************************************************************)
(* Model of src/plot/vega_lite_paths.py: the traversal of a JSON Schema    *)
(* document (children, real_children, process_all_paths) and the three     *)
(* views built from it (path list, gather_edges graph, expand tree).       *)
(*                                                                         *)
(* Strings are sequences of character codes, so that startswith, rfind,    *)
(* '.'.join, replace and the ordering of str are computed as Python        *)
(* computes them.  A schema fragment is referred to by its index in the    *)
(* document (the Python program holds a reference to the dict).            *)
(***************************************************************************)
EXTENDS Integers, Sequences, FiniteSets, TLC

VARIABLES
    doc,          \* index of the loaded schema document (schema, resolver)
    filter,       \* args.filter, the blocklist of keys
    emit,         \* order in which children() emits (the program's is "code")
    pc,           \* position of the script
    queue,        \* process_all_paths: the worklist (right end = end of the sequence)
    nodes,        \* process_all_paths: the set `nodes`
    keywords,     \* process_all_paths: the set `keywords`
    full_paths,   \* module-level full_paths (sorted, filtered list of nodes)
    graph,        \* result of gather_edges (OrderedDict, in insertion order)
    stack,        \* call stack of expand (last element = innermost call)
    dependencies, \* module-level OrderedDict `dependencies`, in insertion order
    tree,         \* result of expand(Node(schema, []), 0, 0)
    run,          \* number of the current run of the script
    prev,         \* outputs of the previous run on the same inputs
    call          \* SpecCall: one call of children()/description on a node

vars == <<doc, filter, emit, pc, queue, nodes, keywords, full_paths, graph,
          stack, dependencies, tree, run, prev, call>>

----------------------------------------------------------------------------
(* Bounds of the model *)

\* longest raw path (full_path) the worklist may hold
MaxDepth == 8
\* number of runs of the script on the same inputs
MaxRuns == 2

----------------------------------------------------------------------------
(* Strings *)

VEGALITE == <<118, 101, 103, 97, 108, 105, 116, 101>>  \* "vegalite"
ANYOF_OPEN == <<97, 110, 121, 79, 102, 91>>            \* "anyOf["
BRACKET_CLOSE == <<93>>                                \* "]"
HASH_SLASH == <<35, 47>>                               \* "#/"
HASH == <<35>>                                         \* "#"
SLASH == <<47>>                                        \* "/"
DOT == <<46>>                                          \* "."
NBSP == <<160>>                                        \* u"\xa0"
SPACE == <<32>>                                        \* " "
F_anyOf == <<97, 110, 121, 79, 102>>                   \* "anyOf"
F_ref == <<36, 114, 101, 102>>                         \* "$ref"
F_items == <<105, 116, 101, 109, 115>>                 \* "items"
F_properties == <<112, 114, 111, 112, 101, 114, 116, 105, 101, 115>>  \* "properties"
F_description == <<100, 101, 115, 99, 114, 105, 112, 116, 105, 111, 110>>  \* "description"
F_type == <<116, 121, 112, 101>>                       \* "type"

K_x == <<120>>  \* "x"
K_y == <<121>>  \* "y"
K_z == <<122>>  \* "z"
K_a == <<97>>   \* "a"
K_b == <<98>>   \* "b"
K_p == <<112>>  \* "p"
K_q == <<113>>  \* "q"
K_l == <<108>>  \* "l"
K_v == <<118>>  \* "v"
K_color == <<99, 111, 108, 111, 114>>                  \* "color"
K_encoding == <<101, 110, 99, 111, 100, 105, 110, 103>> \* "encoding"
K_mark == <<109, 97, 114, 107>>                        \* "mark"
K_data == <<100, 97, 116, 97>>                         \* "data"
R_Y == <<35, 47, 100, 101, 102, 115, 47, 89>>          \* "#/defs/Y"
R_A == <<35, 47, 100, 101, 102, 115, 47, 65>>          \* "#/defs/A"
R_B == <<35, 47, 100, 101, 102, 115, 47, 66>>          \* "#/defs/B"
T_string == <<115, 116, 114, 105, 110, 103>>           \* "string"
T_number == <<110, 117, 109, 98, 101, 114>>            \* "number"
T_bar == <<98, 97, 114>>                               \* "bar"
T_nbsp == <<97, 160, 98>>                              \* u"a\xa0b"

\* s.startswith(pre)
StartsWith(s, pre) ==
    /\ Len(s) >= Len(pre)
    /\ SubSeq(s, 1, Len(pre)) = pre

\* sub in s, for two str
IsSubstring(sub, s) ==
    \E i \in 0..(Len(s) - Len(sub)) : SubSeq(s, i + 1, i + Len(sub)) = sub

\* a < b for two str: code point by code point, a proper prefix is smaller
RECURSIVE StrLt(_, _)
StrLt(a, b) ==
    IF b = <<>> THEN FALSE
    ELSE IF a = <<>> THEN TRUE
    ELSE IF Head(a) # Head(b) THEN Head(a) < Head(b)
    ELSE StrLt(Tail(a), Tail(b))

\* sep.join(parts)
RECURSIVE Join(_, _)
Join(parts, sep) ==
    IF parts = <<>> THEN <<>>
    ELSE IF Len(parts) = 1 THEN parts[1]
    ELSE parts[1] \o sep \o Join(Tail(parts), sep)

\* "{}".format(i) for an int i >= 0
RECURSIVE Decimal(_)
Decimal(i) ==
    IF i < 10 THEN <<48 + i>>
    ELSE Decimal(i \div 10) \o <<48 + (i % 10)>>

\* key.rfind('/'): the highest 0-based index of '/', or -1
RFindSlash(key) ==
    IF \E i \in 1..Len(key) : <<key[i]>> = SLASH
    THEN (CHOOSE i \in 1..Len(key) :
              /\ <<key[i]>> = SLASH
              /\ \A j \in (i + 1)..Len(key) : <<key[j]>> # SLASH) - 1
    ELSE -1

\* key[i:] for a 0-based i that may be negative (-1 is the last character)
SliceFrom(key, i) ==
    LET from == IF i >= 0 THEN i ELSE IF Len(key) + i >= 0 THEN Len(key) + i ELSE 0
    IN  SubSeq(key, from + 1, Len(key))

\* s.replace(old, new) for a one-character old
ReplaceChar(s, old, new) ==
    [i \in 1..Len(s) |-> IF <<s[i]>> = old THEN new[1] ELSE s[i]]

Reverse(s) == [i \in 1..Len(s) |-> s[Len(s) + 1 - i]]

Last(s) == s[Len(s)]

----------------------------------------------------------------------------
(* Inputs: schema documents with their resolver, and blocklists *)

Obj(fields) == [kind |-> "object", fields |-> fields]
Str(text) == [kind |-> "string", text |-> text]
Arr(elems) == [kind |-> "array", elems |-> elems]
Scalar(kind) == [kind |-> kind]
NoFields == <<>>

\* {"properties": {"x": {"type": "string"}, "y": {"$ref": "#/defs/Y"}},
\*  "defs": {"Y": {"properties": {"z": {"type": "number"}}}}}
S_scenario ==
    [frags |-> << Obj(F_properties :> (K_x :> 2 @@ K_y :> 3)),
                  Obj(F_type :> T_string),
                  Obj(F_ref :> R_Y),
                  Obj(F_properties :> (K_z :> 5)),
                  Obj(F_type :> T_number) >>,
     refs |-> (R_Y :> 4)]

\* {"properties": {"a": {"$ref": "#/defs/A"}},
\*  "defs": {"A": {"anyOf": [{"$ref": "#/defs/A"}, {"properties": {"x": {}}}]}}}
S_selfref ==
    [frags |-> << Obj(F_properties :> (K_a :> 2)),
                  Obj(F_ref :> R_A),
                  Obj(F_anyOf :> <<4, 5>>),
                  Obj(F_ref :> R_A),
                  Obj(F_properties :> (K_x :> 6)),
                  Obj(NoFields) >>,
     refs |-> (R_A :> 3)]

\* {"$ref": "#/defs/A",
\*  "defs": {"A": {"$ref": "#/defs/A", "properties": {"a": {"$ref": "#/defs/A"}}}}}
S_rootref ==
    [frags |-> << Obj(F_ref :> R_A),
                  Obj(F_ref :> R_A @@ F_properties :> (K_a :> 3)),
                  Obj(F_ref :> R_A) >>,
     refs |-> (R_A :> 2)]

\* {"properties": {"a": {"$ref": "#/defs/A"}},
\*  "defs": {"A": {"properties": {"b": {"$ref": "#/defs/B"}}},
\*           "B": {"properties": {"a": {"$ref": "#/defs/A"}}}}}
S_mutual ==
    [frags |-> << Obj(F_properties :> (K_a :> 2)),
                  Obj(F_ref :> R_A),
                  Obj(F_properties :> (K_b :> 4)),
                  Obj(F_ref :> R_B),
                  Obj(F_properties :> (K_a :> 2)) >>,
     refs |-> (R_A :> 3 @@ R_B :> 5)]

\* {"anyOf": [{"properties": {"x": {"properties": {"p": {}}}}},
\*            {"properties": {"x": {"properties": {"q": {}}}}}]}
S_multi ==
    [frags |-> << Obj(F_anyOf :> <<2, 3>>),
                  Obj(F_properties :> (K_x :> 4)),
                  Obj(F_properties :> (K_x :> 5)),
                  Obj(F_properties :> (K_p :> 6)),
                  Obj(F_properties :> (K_q :> 6)),
                  Obj(NoFields) >>,
     refs |-> <<>>]

\* {"properties": {"encoding": {"properties": {"color": {}}},
\*                 "mark": {"properties": {"color": {}}}}}
S_color ==
    [frags |-> << Obj(F_properties :> (K_encoding :> 2 @@ K_mark :> 3)),
                  Obj(F_properties :> (K_color :> 4)),
                  Obj(F_properties :> (K_color :> 4)),
                  Obj(NoFields) >>,
     refs |-> <<>>]

\* {"properties": {"l": {"type": "array", "items": {"properties": {"v": {}}}}}}
S_items ==
    [frags |-> << Obj(F_properties :> (K_l :> 2)),
                  Obj(F_items :> 3),
                  Obj(F_properties :> (K_v :> 4)),
                  Obj(NoFields) >>,
     refs |-> <<>>]

\* {"anyOf": [{"properties": {"x": {}}}], "properties": {"b": {}, "x": {}}}
S_order ==
    [frags |-> << Obj(F_anyOf :> <<2>> @@ F_properties :> (K_b :> 3 @@ K_x :> 3)),
                  Obj(F_properties :> (K_x :> 3)),
                  Obj(NoFields) >>,
     refs |-> <<>>]

\* {"properties": {"data": {"properties": {"y": {}}},
\*                 "x": {"properties": {"y": {}, "z": {}}}}}
S_nested ==
    [frags |-> << Obj(F_properties :> (K_data :> 2 @@ K_x :> 3)),
                  Obj(F_properties :> (K_y :> 4)),
                  Obj(F_properties :> (K_y :> 4 @@ K_z :> 4)),
                  Obj(NoFields) >>,
     refs |-> <<>>]

\* {"description": u"a\xa0b", "properties": {"x": "bar", "y": ["bar"]}}
S_scalars ==
    [frags |-> << Obj(F_description :> T_nbsp @@ F_properties :> (K_x :> 2 @@ K_y :> 3)),
                  Str(T_bar),
                  Arr(<<T_bar>>) >>,
     refs |-> <<>>]

\* {"properties": {"x": true}, "items": 5}
S_boolean ==
    [frags |-> << Obj(F_properties :> (K_x :> 2) @@ F_items :> 3),
                  Scalar("boolean"),
                  Scalar("number") >>,
     refs |-> <<>>]

\* {"properties": {"x": null, "y": "items", "z": ["anyOf"]}}
S_null ==
    [frags |-> << Obj(F_properties :> (K_x :> 2 @@ K_y :> 3 @@ K_z :> 4)),
                  Scalar("null"),
                  Str(F_items),
                  Arr(<<F_anyOf>>) >>,
     refs |-> <<>>]

\* documents all of whose fragments are objects, strings or arrays
Schemas ==
    << S_scenario, S_selfref, S_rootref, S_mutual, S_multi, S_color, S_items,
       S_order, S_nested, S_scalars >>

\* the same, and documents with boolean, number and null fragments
AllSchemas == Schemas \o << S_boolean, S_null >>

\* default of --filter
DefaultFilter ==
    { <<118, 99, 111, 110, 99, 97, 116>>,              \* "vconcat"
      <<104, 99, 111, 110, 99, 97, 116>>,              \* "hconcat"
      <<108, 97, 121, 101, 114>>,                      \* "layer"
      <<115, 112, 101, 99>>,                           \* "spec"
      <<114, 101, 112, 101, 97, 116>>,                 \* "repeat"
      <<99, 111, 110, 100, 105, 116, 105, 111, 110>>,  \* "condition"
      <<115, 101, 108, 101, 99, 116, 105, 111, 110>>,  \* "selection"
      K_data,
      <<102, 97, 99, 101, 116>> }                      \* "facet"

Filters == { {}, {K_y}, {K_z}, {VEGALITE}, DefaultFilter }

\* emission orders of children(): the program's, and two permutations of it
EmitOrders == {"code", "reversed", "rotated"}

\* the fragment a node's schema field refers to
Schema(id) == AllSchemas[doc].frags[id]

\* resolver.resolve(ref)[1]
resolve(ref) == AllSchemas[doc].refs[ref]

----------------------------------------------------------------------------
(* class Node *)

Node(schema, full_path) == [schema |-> schema, full_path |-> full_path]

IsAnyOfKey(key) == StartsWith(key, ANYOF_OPEN)

\* Node.path
path(node) ==
    <<VEGALITE>> \o
    SelectSeq(node.full_path,
              LAMBDA key : ~(IsAnyOfKey(key) \/ StartsWith(key, HASH_SLASH) \/ key = F_items))

\* Node.pathstr
pathstr(node) == Join(path(node), DOT)

NiceKey(key) ==
    IF ~StartsWith(key, HASH) THEN key ELSE SliceFrom(key, RFindSlash(key))

\* Node.full_path_nice
full_path_nice(node) ==
    LET kept == SelectSeq(node.full_path,
                          LAMBDA key : ~(IsAnyOfKey(key) \/ key = F_items))
    IN  <<VEGALITE>> \o [i \in 1..Len(kept) |-> NiceKey(kept[i])]

\* Node.name
name(node) == Last(path(node))

\* Node.id
id(node) ==
    LET p == full_path_nice(node)
    IN  IF Len(p) > 1 THEN SubSeq(p, Len(p) - 1, Len(p)) ELSE SubSeq(p, Len(p), Len(p))

NodeEqRaw(a, b) == a.full_path = b.full_path

\* Node.__eq__ (and __hash__: equal nodes hash alike)
NodeEq(a, b) == path(a) = path(b)

\* Node.__lt__
NodeLt(a, b) == StrLt(Join(a.full_path, DOT), Join(b.full_path, DOT))

\* key in schema, for the types on which Python defines it
Has(schema, key) ==
    CASE schema.kind = "object" -> key \in DOMAIN schema.fields
      [] schema.kind = "string" -> IsSubstring(key, schema.text)
      [] schema.kind = "array" -> \E i \in 1..Len(schema.elems) : schema.elems[i] = key

\* key in schema raises TypeError: a bool, a number or None is not iterable
NotIterable(schema) == schema.kind \notin {"object", "string", "array"}

\* schema[key] raises TypeError: str and list indices must be integers
NotSubscriptable(schema, key) == schema.kind # "object" /\ Has(schema, key)

\* Node.description raises
descriptionRaises(node) ==
    LET schema == Schema(node.schema)
    IN  NotIterable(schema) \/ NotSubscriptable(schema, F_description)

\* Node.description
description(node) ==
    LET schema == Schema(node.schema)
    IN  IF Has(schema, F_description)
        THEN ReplaceChar(schema.fields[F_description], NBSP, SPACE)
        ELSE <<>>

----------------------------------------------------------------------------
(* children *)

\* a set of str as the sorted list of its elements
RECURSIVE SortedKeys(_)
SortedKeys(S) ==
    IF S = {} THEN <<>>
    ELSE CHOOSE keys \in { <<least>> \o SortedKeys(S \ {least}) :
                           least \in { k \in S : \A other \in S \ {k} : StrLt(k, other) } } :
             TRUE

AnyOfChildren(node) ==
    LET schema == Schema(node.schema)
    IN  IF Has(schema, F_anyOf)
        THEN [i \in 1..Len(schema.fields[F_anyOf]) |->
                 Node(schema.fields[F_anyOf][i],
                      Append(node.full_path, ANYOF_OPEN \o Decimal(i - 1) \o BRACKET_CLOSE))]
        ELSE <<>>

RefChildrenNoGuard(node) ==
    LET schema == Schema(node.schema)
    IN  IF Has(schema, F_ref)
        THEN LET ref == schema.fields[F_ref]
             IN  <<Node(resolve(ref), Append(node.full_path, ref))>>
        ELSE <<>>

RefChildren(node) ==
    LET schema == Schema(node.schema)
    IN  IF Has(schema, F_ref)
        THEN LET ref == schema.fields[F_ref]
             IN  IF ~(\E i \in 1..Len(node.full_path) : node.full_path[i] = ref)
                 THEN <<Node(resolve(ref), Append(node.full_path, ref))>>
                 ELSE <<>>
        ELSE <<>>

ItemsChildren(node) ==
    LET schema == Schema(node.schema)
    IN  IF Has(schema, F_items)
        THEN <<Node(schema.fields[F_items], Append(node.full_path, F_items))>>
        ELSE <<>>

PropertiesChildren(node) ==
    LET schema == Schema(node.schema)
    IN  IF Has(schema, F_properties)
        THEN LET props == schema.fields[F_properties]
                 keys == SortedKeys(DOMAIN props)
             IN  [i \in 1..Len(keys) |->
                     Node(props[keys[i]], Append(node.full_path, keys[i]))]
        ELSE <<>>

\* the order in which the children leave children(): "code" is the program's
Emitted(child_nodes) ==
    CASE emit = "code" -> child_nodes
      [] emit = "reversed" -> Reverse(child_nodes)
      [] emit = "rotated" ->
            IF child_nodes = <<>> THEN <<>>
            ELSE Append(Tail(child_nodes), Head(child_nodes))

\* children(node) raises TypeError
childrenRaises(node) ==
    LET schema == Schema(node.schema)
    IN  \/ NotIterable(schema)
        \/ \E key \in {F_anyOf, F_ref, F_items, F_properties} :
               NotSubscriptable(schema, key)

children(node) ==
    Emitted(AnyOfChildren(node) \o RefChildren(node) \o ItemsChildren(node)
            \o PropertiesChildren(node))

----------------------------------------------------------------------------
(* Python containers *)

\* set.add(node): a set holds one element per equality class, the first added
SetAdd(S, node) ==
    IF \E other \in S : NodeEq(other, node) THEN S ELSE S \cup {node}

\* the orders in which iterating a set may yield its elements: the order
\* follows the elements' hashes, and str hashes differ from process to process
RECURSIVE Iterations(_)
Iterations(S) ==
    IF S = {} THEN {<<>>}
    ELSE UNION { { <<first>> \o rest : rest \in Iterations(S \ {first}) } : first \in S }

\* sorted(S): the results a sort by __lt__ may give (elements neither of which
\* is less than the other come out in the order of iteration)
RECURSIVE Sorted(_)
Sorted(S) ==
    IF S = {} THEN {<<>>}
    ELSE UNION { { <<least>> \o rest : rest \in Sorted(S \ {least}) } :
                 least \in { n \in S : \A other \in S : ~NodeLt(other, n) } }

\* all([p not in args.filter for p in node.path])
Unfiltered(node) == \A i \in 1..Len(path(node)) : path(node)[i] \notin filter

RECURSIVE Sum(_)
Sum(sizes) == IF sizes = <<>> THEN 0 ELSE Head(sizes) + Sum(Tail(sizes))

----------------------------------------------------------------------------
(* process_all_paths *)

seed == Node(1, <<>>)

NoOutputs == [full_paths |-> <<>>, graph |-> <<>>, tree |-> <<>>, dependencies |-> <<>>]

NoCall == [node |-> seed, at |-> "none", children |-> <<>>, description |-> <<>>]

\* state of the script when process_all_paths starts its loop
Start ==
    /\ pc = "walk"
    /\ queue = <<seed>>
    /\ nodes = {}
    /\ keywords = {}
    /\ full_paths = <<>>
    /\ graph = <<>>
    /\ stack = <<>>
    /\ dependencies = <<>>
    /\ tree = <<>>

Init ==
    /\ doc \in 1..Len(Schemas)
    /\ filter \in Filters
    /\ emit = "code"
    /\ run = 1
    /\ prev = NoOutputs
    /\ call = NoCall
    /\ Start

\* one iteration of the while loop
WalkReplacesQueue ==
    /\ pc = "walk"
    /\ queue # <<>>
    /\ LET state == Last(queue)
       IN  /\ Len(state.full_path) <= MaxDepth
           /\ nodes' = SetAdd(nodes, state)
           /\ queue' = Reverse(children(state))
           /\ keywords' = SetAdd(keywords, state)
    /\ UNCHANGED <<doc, filter, emit, pc, full_paths, graph, stack, dependencies,
                   tree, run, prev, call>>

Walk ==
    /\ pc = "walk"
    /\ queue # <<>>
    /\ LET state == Last(queue)
       IN  /\ Len(state.full_path) <= MaxDepth
           /\ nodes' = SetAdd(nodes, state)
           /\ queue' = SubSeq(queue, 1, Len(queue) - 1) \o Reverse(children(state))
           /\ keywords' = SetAdd(keywords, state)
    /\ UNCHANGED <<doc, filter, emit, pc, full_paths, graph, stack, dependencies,
                   tree, run, prev, call>>

\* the loop has ended: sort, filter, return; the module keeps full_paths
WalkReturn ==
    /\ pc = "walk"
    /\ queue = <<>>
    /\ \E sorted \in Sorted(nodes) :
           full_paths' = IF filter # {} THEN SelectSeq(sorted, Unfiltered) ELSE sorted
    /\ pc' = "gather"
    /\ UNCHANGED <<doc, filter, emit, queue, nodes, keywords, graph, stack,
                   dependencies, tree, run, prev, call>>

----------------------------------------------------------------------------
(* gather_edges *)

KeyIndex(records, key) ==
    IF \E i \in 1..Len(records) : records[i].key = key
    THEN CHOOSE i \in 1..Len(records) : records[i].key = key
    ELSE 0

\* the body of the inner loop, for the key at (1-based) position i of p
\* (the quantifier binds `records` to the value of the dict, computed once)
GatherKey(dict, p, i) ==
    CHOOSE out \in
        { LET key == p[i]
              at == KeyIndex(records, key)
          IN  IF at = 0
              THEN Append(records, [key |-> key, children |-> <<>>, parents |-> <<>>])
              ELSE LET parent == IF i > 1 THEN <<p[i - 1]>> ELSE <<>>
                       child == IF i < Len(p) THEN <<p[i + 1]>> ELSE <<>>
                   IN  [records EXCEPT ![at].children = Append(@, child),
                                       ![at].parents = Append(@, parent)]
          : records \in {dict} } : TRUE

RECURSIVE GatherPath(_, _, _)
GatherPath(records, p, i) ==
    IF i > Len(p) THEN records
    ELSE GatherPath(GatherKey(records, p, i), p, i + 1)

RECURSIVE GatherAll(_, _)
GatherAll(records, fps) ==
    IF fps = <<>> THEN records
    ELSE GatherAll(GatherPath(records, path(Head(fps)), 1), Tail(fps))

gather_edges(fps) == GatherAll(<<>>, fps)

\* a call of expand(node, depth, height) that has reached line 181:
\* real_children(node) starts with queue = deque(children(node))
Frame(node) ==
    [node |-> node, at |-> "real_children", queue |-> children(node),
     child_nodes |-> {}, y |-> 0, todo |-> <<>>, children |-> <<>>]

Gather ==
    /\ pc = "gather"
    /\ graph' = gather_edges(full_paths)
    /\ pc' = "expand"
    /\ stack' = <<Frame(seed)>>
    /\ UNCHANGED <<doc, filter, emit, queue, nodes, keywords, full_paths,
                   dependencies, tree, run, prev, call>>

----------------------------------------------------------------------------
(* expand, with real_children *)

Top == Last(stack)

\* one iteration of the while loop of real_children
RealChildrenStep ==
    /\ pc = "expand"
    /\ Top.at = "real_children"
    /\ Top.queue # <<>>
    /\ LET c == Last(Top.queue)
           rest == SubSeq(Top.queue, 1, Len(Top.queue) - 1)
       IN  IF path(c) # path(Top.node)
           THEN stack' = [stack EXCEPT ![Len(stack)].queue = rest,
                                       ![Len(stack)].child_nodes = SetAdd(@, c)]
           ELSE stack' = [stack EXCEPT ![Len(stack)].queue = rest \o children(c)]
    /\ UNCHANGED <<doc, filter, emit, pc, queue, nodes, keywords, full_paths, graph,
                   dependencies, tree, run, prev, call>>

\* tree['size'] of a node without real children
LeafSize == 1

\* a tree dict; `keys` are the keys the dict holds ('y' and 'children' are
\* set only past line 183)
LeafTree(node) ==
    [keys |-> {"path", "node", "size"}, path |-> pathstr(node), node |-> node,
     y |-> 0, children |-> <<>>, size |-> LeafSize]

TreeSizeAtLeastOne(subtrees) ==
    IF subtrees = <<>> THEN 1 ELSE Sum([i \in 1..Len(subtrees) |-> subtrees[i].size])

TreeSizeCount(subtrees) == Len(subtrees)

\* sum(c['size'] for c in tree['children'])
TreeSize(subtrees) == Sum([i \in 1..Len(subtrees) |-> subtrees[i].size])

InnerTree(node, y, subtrees) ==
    [keys |-> {"path", "node", "y", "children", "size"}, path |-> pathstr(node),
     node |-> node, y |-> y, children |-> subtrees, size |-> TreeSize(subtrees)]

\* dependencies[tuple(node.full_path_nice)] = tree: an OrderedDict keeps the
\* place of a key that is assigned again.  The value is the tree dict, of
\* which the entry keeps its 'path' and 'node'
SetDependency(deps, node) ==
    LET key == full_path_nice(node)
        entry == [key |-> key, path |-> pathstr(node), node |-> node]
    IN  IF \E i \in 1..Len(deps) : deps[i].key = key
        THEN [i \in 1..Len(deps) |-> IF deps[i].key = key THEN entry ELSE deps[i]]
        ELSE Append(deps, entry)

\* return tree: to the calling expand, or to the module (line 195)
Return(t) ==
    IF Len(stack) = 1
    THEN /\ tree' = t
         /\ stack' = <<>>
         /\ pc' = "done"
    ELSE /\ stack' = [SubSeq(stack, 1, Len(stack) - 1)
                         EXCEPT ![Len(stack) - 1].children = Append(@, t)]
         /\ UNCHANGED <<tree, pc>>

\* real_children has returned the empty set: lines 182-185
ExpandLeaf ==
    /\ pc = "expand"
    /\ Top.at = "real_children"
    /\ Top.queue = <<>>
    /\ Top.child_nodes = {}
    /\ dependencies' = SetDependency(dependencies, Top.node)
    /\ Return(LeafTree(Top.node))
    /\ UNCHANGED <<doc, filter, emit, queue, nodes, keywords, full_paths, graph,
                   run, prev, call>>

\* real_children has returned a non-empty set: lines 182-188
ExpandInner ==
    /\ pc = "expand"
    /\ Top.at = "real_children"
    /\ Top.queue = <<>>
    /\ Top.child_nodes # {}
    /\ dependencies' = SetDependency(dependencies, Top.node)
    /\ \E order \in Iterations(Top.child_nodes) :
           stack' = [stack EXCEPT ![Len(stack)].at = "children",
                                  ![Len(stack)].y = Cardinality(Top.child_nodes),
                                  ![Len(stack)].todo = SelectSeq(order, Unfiltered)]
    /\ UNCHANGED <<doc, filter, emit, pc, queue, nodes, keywords, full_paths, graph,
                   tree, run, prev, call>>

\* line 189: the next expand(c, depth+1, height+h) of the list comprehension
ExpandChild ==
    /\ pc = "expand"
    /\ Top.at = "children"
    /\ Top.todo # <<>>
    /\ stack' = Append([stack EXCEPT ![Len(stack)].todo = Tail(@)],
                       Frame(Head(Top.todo)))
    /\ UNCHANGED <<doc, filter, emit, pc, queue, nodes, keywords, full_paths, graph,
                   dependencies, tree, run, prev, call>>

\* lines 189-192: the list comprehension is complete
ExpandReturn ==
    /\ pc = "expand"
    /\ Top.at = "children"
    /\ Top.todo = <<>>
    /\ Return(InnerTree(Top.node, Top.y, Top.children))
    /\ UNCHANGED <<doc, filter, emit, queue, nodes, keywords, full_paths, graph,
                   dependencies, run, prev, call>>

----------------------------------------------------------------------------
(* Runs of the script *)

Outputs ==
    [full_paths |-> full_paths, graph |-> graph, tree |-> tree,
     dependencies |-> dependencies]

\* the state of a fresh process at the loop of process_all_paths
Restart ==
    /\ pc' = "walk"
    /\ queue' = <<seed>>
    /\ nodes' = {}
    /\ keywords' = {}
    /\ full_paths' = <<>>
    /\ graph' = <<>>
    /\ stack' = <<>>
    /\ dependencies' = <<>>
    /\ tree' = <<>>

\* the script is run again on the same schema, with the same --filter
Rerun ==
    /\ pc = "done"
    /\ run < MaxRuns
    /\ run' = run + 1
    /\ prev' = Outputs
    /\ Restart
    /\ UNCHANGED <<doc, filter, emit, call>>

\* the script is run again with children() emitting in another order
RerunEmitted ==
    /\ pc = "done"
    /\ run < MaxRuns
    /\ run' = run + 1
    /\ prev' = Outputs
    /\ emit' \in EmitOrders \ {"code"}
    /\ Restart
    /\ UNCHANGED <<doc, filter, call>>

Script ==
    \/ Walk
    \/ WalkReturn
    \/ Gather
    \/ RealChildrenStep
    \/ ExpandLeaf
    \/ ExpandInner
    \/ ExpandChild
    \/ ExpandReturn

Next == Script \/ Rerun

Spec == Init /\ [][Next]_vars

\* the script is a sequential program: it takes its next step
LiveSpec == Spec /\ WF_vars(Next)

NextEmit == Script \/ RerunEmitted

SpecEmit == Init /\ [][NextEmit]_vars

----------------------------------------------------------------------------
(* Single calls of children() and of Node.description *)

CallPaths == { <<>>, <<K_x>>, <<R_A, K_a>> }

InitCall ==
    /\ doc \in 1..Len(AllSchemas)
    /\ filter = {}
    /\ emit = "code"
    /\ run = 1
    /\ prev = NoOutputs
    /\ pc = "call"
    /\ queue = <<>>
    /\ nodes = {}
    /\ keywords = {}
    /\ full_paths = <<>>
    /\ graph = <<>>
    /\ stack = <<>>
    /\ dependencies = <<>>
    /\ tree = <<>>
    /\ \E schema \in 1..Len(AllSchemas[doc].frags), full_path \in CallPaths :
           call = [NoCall EXCEPT !.node = Node(schema, full_path), !.at = "call"]

CallChildren ==
    /\ pc = "call"
    /\ call.at = "call"
    /\ IF childrenRaises(call.node)
       THEN call' = [call EXCEPT !.at = "TypeError"]
       ELSE call' = [call EXCEPT !.at = "children", !.children = children(call.node)]
    /\ UNCHANGED <<doc, filter, emit, pc, queue, nodes, keywords, full_paths, graph,
                   stack, dependencies, tree, run, prev>>

CallDescription ==
    /\ pc = "call"
    /\ call.at = "call"
    /\ IF descriptionRaises(call.node)
       THEN call' = [call EXCEPT !.at = "TypeError"]
       ELSE call' = [call EXCEPT !.at = "description",
                                 !.description = description(call.node)]
    /\ UNCHANGED <<doc, filter, emit, pc, queue, nodes, keywords, full_paths, graph,
                   stack, dependencies, tree, run, prev>>

NextCall == CallChildren \/ CallDescription

SpecCall == InitCall /\ [][NextCall]_vars

----------------------------------------------------------------------------
(* Vocabulary of the properties *)

\* every raw path that children() reaches from a node, the node included
RECURSIVE RawReach(_)
RawReach(node) ==
    {node} \cup UNION { RawReach(children(node)[i]) : i \in 1..Len(children(node)) }

\* the canonical paths one key below a node's: those of its real children
RealChildPaths(node) ==
    { path(n) : n \in { r \in RawReach(node) : Len(path(r)) = Len(path(node)) + 1 } }

\* the tree dicts of a tree: the root and all nested 'children'
RECURSIVE TreeNodes(_)
TreeNodes(t) ==
    {t} \cup UNION { TreeNodes(t.children[i]) : i \in 1..Len(t.children) }

\* the leaves below (or at) a tree dict: tree nodes without real children
RECURSIVE LeafCount(_)
LeafCount(t) ==
    IF RealChildPaths(t.node) = {} THEN 1
    ELSE Sum([i \in 1..Len(t.children) |-> LeafCount(t.children[i])])

Clean(p) == \A i \in 1..Len(p) : p[i] \notin filter

CanonSeq(fps) == [i \in 1..Len(fps) |-> path(fps[i])]

CanonSet(fps) == { path(fps[i]) : i \in 1..Len(fps) }

Walked == pc \in {"gather", "expand", "done"}

\* a raw path at which the cycle guard of children() suppressed the $ref hop
Guarded(node) ==
    LET schema == Schema(node.schema)
    IN  /\ Has(schema, F_ref)
        /\ \E i \in 1..Len(node.full_path) : node.full_path[i] = schema.fields[F_ref]

Occurrences(p) == Cardinality({ i \in 1..Len(full_paths) : path(full_paths[i]) = p })

----------------------------------------------------------------------------
(* Properties *)

\* C1: when the blocklist does not hold 'vegalite', the canonical paths of the
\* nodes of the tree returned by expand (root and all nested 'children') are
\* exactly the canonical paths of the nodes process_all_paths returned.
C1_TreeMatchesPathList ==
    (pc = "done" /\ VEGALITE \notin filter)
        => { path(t.node) : t \in TreeNodes(tree) } = CanonSet(full_paths)

\* C2: gather_edges gives one record per distinct key, and for every node of
\* the path list whose canonical path has key k at a position i > 0, the
\* record of k has the element path[i-1] among its 'parents'.
C2_ParentsOfEveryOccurrence ==
    (pc \in {"expand", "done"}) =>
        /\ \A i, j \in 1..Len(graph) : graph[i].key = graph[j].key => i = j
        /\ \A n \in 1..Len(full_paths) :
               LET p == path(full_paths[n])
               IN  \A i \in 2..Len(p) :
                       \E r \in 1..Len(graph) :
                           /\ graph[r].key = p[i]
                           /\ \E k \in 1..Len(graph[r].parents) :
                                  graph[r].parents[k] = <<p[i - 1]>>

\* C3: two complete runs on the same schema and blocklist give the same path
\* list, the same graph records in the same order, and the same tree with the
\* same order in every 'children' list.
C3_RunsAgree ==
    (pc = "done" /\ run > 1) => Outputs = prev

\* C4: for every blocklist, no node of the path list, no key of the graph
\* records, no node of the tree (its root included) and no entry of
\* `dependencies` has a blocklisted key in its canonical path.
C4_NoBlocklistedKey ==
    (pc = "done") =>
        /\ \A i \in 1..Len(full_paths) : Clean(path(full_paths[i]))
        /\ \A i \in 1..Len(graph) : graph[i].key \notin filter
        /\ \A t \in TreeNodes(tree) : Clean(path(t.node))
        /\ \A i \in 1..Len(dependencies) : Clean(path(dependencies[i].node))

\* C5: in the tree returned by expand, 'size' of every tree node is the number
\* of leaves (tree nodes without real children) at or below it: 1 for a leaf,
\* and the sum of the sizes of its emitted children otherwise.
C5_SizeCountsLeaves ==
    (pc = "done") =>
        \A t \in TreeNodes(tree) :
            /\ t.size = LeafCount(t)
            /\ RealChildPaths(t.node) = {} => (t.size = 1 /\ "children" \notin t.keys)
            /\ RealChildPaths(t.node) # {} =>
                   /\ "children" \in t.keys
                   /\ t.size = Sum([i \in 1..Len(t.children) |-> t.children[i].size])

C5_Witness ==
    /\ pc = "done"
    /\ tree.size >= 3
    /\ \E i \in 1..Len(tree.children) : tree.children[i].size >= 2

\* C6: every run terminates: the worklist of process_all_paths empties, every
\* real_children queue empties and expand returns to the module; and then the
\* canonical path of every node at which the cycle guard stopped a $ref is in
\* the result exactly once (unless the blocklist removes it).
C6_RunTerminates ==
    (pc = "walk") ~>
        (IF pc = "done"
         THEN \A n \in RawReach(seed) :
                  (Guarded(n) /\ Unfiltered(n)) => Occurrences(path(n)) = 1
         ELSE FALSE)

C6_Witness ==
    /\ pc = "done"
    /\ \E n \in RawReach(seed) :
           /\ Guarded(n)
           /\ Unfiltered(n)
           /\ Occurrences(path(n)) = 1
           /\ Len(n.full_path) >= 4

\* C7: the list process_all_paths returns holds no two nodes of equal
\* canonical path, and holds the canonical path of every raw path reachable
\* from the root through children() that has no blocklisted key.
C7_EachCanonicalPathOnce ==
    Walked =>
        /\ \A i, j \in 1..Len(full_paths) :
               path(full_paths[i]) = path(full_paths[j]) => i = j
        /\ CanonSet(full_paths) = { path(n) : n \in { r \in RawReach(seed) : Unfiltered(r) } }

C7_Witness ==
    /\ pc = "done"
    /\ \E a, b \in RawReach(seed) :
           /\ a.full_path # b.full_path
           /\ path(a) = path(b)
           /\ Len(path(a)) > 1
           /\ Occurrences(path(a)) = 1

\* the recognized fields are absent from a fragment
LacksFields(schema) ==
    \/ schema.kind # "object"
    \/ DOMAIN schema.fields \cap {F_anyOf, F_ref, F_items, F_properties, F_description} = {}

\* C8: for a node whose fragment lacks the recognized fields, a fragment that
\* is not an object included, children(node) returns the empty sequence and
\* description is empty, and neither raises.
C8_PermissiveOnMalformed ==
    (call.at # "call" /\ call.at # "none" /\ LacksFields(Schema(call.node.schema))) =>
        /\ call.at \in {"children", "description"}
        /\ call.children = <<>>
        /\ call.description = <<>>

\* C9 as claimed: with children() emitting the same children in another
\* order, process_all_paths returns the same sequence of canonical paths.
C9_SameSequence ==
    (Walked /\ run > 1) => CanonSeq(full_paths) = CanonSeq(prev.full_paths)

\* C9 as amended: with children() emitting the same children in another
\* order, process_all_paths returns the same set of canonical paths, each
\* once; their order in the sequence may differ.
C9_SameSet ==
    (Walked /\ run > 1) =>
        /\ CanonSet(full_paths) = CanonSet(prev.full_paths)
        /\ Len(full_paths) = Len(prev.full_paths)

C9_Witness ==
    /\ pc = "done"
    /\ run > 1
    /\ emit # "code"
    /\ CanonSeq(full_paths) # CanonSeq(prev.full_paths)

\* C10 as claimed: every node of the tree has size >= 1, and a node whose
\* 'children' list is empty or absent has size exactly 1.
C10_SizeAtLeastOne ==
    (pc = "done") =>
        \A t \in TreeNodes(tree) :
            /\ t.size >= 1
            /\ t.children = <<>> => t.size = 1

\* C10 as amended: every node of the tree has size >= 0; a node without a
\* 'children' list has size exactly 1; a node whose real children are all
\* filtered out has an empty 'children' list and size 0.
C10_SizeOfChildless ==
    (pc = "done") =>
        \A t \in TreeNodes(tree) :
            /\ t.size >= 0
            /\ "children" \notin t.keys => t.size = 1
            /\ ("children" \in t.keys /\ t.children = <<>>) =>
                   /\ t.size = 0
                   /\ RealChildPaths(t.node) # {}
                   /\ \A p \in RealChildPaths(t.node) : ~Clean(p)

C10_Witness ==
    /\ pc = "done"
    /\ \E t \in TreeNodes(tree) :
           /\ "children" \in t.keys
           /\ t.children = <<>>
           /\ VEGALITE \notin filter

====
